---------------------------- MODULE Spec2Model ----------------------------
(***************************************************************************)
(* Model of the signup/login application: the input sanitizer and field   *)
(* validator (validator/user.validator.js), the credential transform      *)
(* (utils/bcript.js), the database connector (utils/db.js) and the        *)
(* request handlers (controllers/register.js, controllers/login.js).      *)
(*                                                                         *)
(* A JavaScript string is a sequence of one-character strings, so that    *)
(* trimming, escaping, splitting and capitalisation are computed          *)
(* character by character.  A JavaScript value is a record [t, v] whose   *)
(* tag t is "str", "num", "bool", "null" or "undefined".  An object is a  *)
(* function from its keys (strings, as above) to values.                  *)
(***************************************************************************)
EXTENDS Integers, Sequences, FiniteSets, TLC

VARIABLES
    \* sanitization(data) applied once and twice
    sanData, sanOnce, sanTwice, sanPhase,
    \* one call of validation: the arguments as passed, the caller's
    \* requiredFields array, the fields checked for presence, the outcome
    valArgs, callerFields, valChecked, valResult, valPhase,
    \* utils/bcript.js: the process environment, the hashes produced so far,
    \* the last comparison and the last token call
    env, hashes, lastCompare, lastToken,
    \* utils/db.js: the module's flag, the calls of mongoose.connect, the
    \* listeners registered on the connection, each caller's position in
    \* connectDB, and whether process.exit was called
    isConnected, connectCalls, listeners, dbPc, exited,
    \* the application: the users collection, each session's user, and the
    \* requests in flight with their responses
    accounts, sessions, reqs

sanVars == <<sanData, sanOnce, sanTwice, sanPhase>>
valVars == <<valArgs, callerFields, valChecked, valResult, valPhase>>
cryptoVars == <<env, hashes, lastCompare, lastToken>>
dbVars == <<isConnected, connectCalls, listeners, dbPc, exited>>
appVars == <<accounts, sessions, reqs>>

vars == <<sanVars, valVars, cryptoVars, dbVars, appVars>>

-----------------------------------------------------------------------------
(* Bounds of the model *)

\* longest string enumerated exhaustively as a field value
MaxLen == 3

\* number of distinct salts bcrypt may draw
NumSalts == 2

\* number of stored hashes kept for comparison
MaxHashes == 2

\* largest token length tried, in halves (5 stands for 2.5)
MaxTokenHalves == 5

\* number of callers of connectDB
MaxCallers == 4

\* number of requests in flight at once
MaxRequests == 2

\* number of browser sessions
NumSessions == 1

-----------------------------------------------------------------------------
(* JavaScript values *)

Str(s) == [t |-> "str", v |-> s]
Num(n) == [t |-> "num", v |-> n]
Bool(b) == [t |-> "bool", v |-> b]
Null == [t |-> "null", v |-> 0]
Undefined == [t |-> "undefined", v |-> 0]

\* typeof x === "string"
IsString(x) == x.t = "str"

\* ToBoolean(x): "", 0, false, null and undefined are falsy
Truthy(x) ==
    CASE x.t = "str" -> x.v # <<>>
      [] x.t = "num" -> x.v # 0
      [] x.t = "bool" -> x.v
      [] OTHER -> FALSE

\* obj[key]: undefined for a key the object does not have
Get(obj, key) == IF key \in DOMAIN obj THEN obj[key] ELSE Undefined

\* a thrown exception, as the result of an operation
Throw(msg) == [t |-> "throw", v |-> msg]
IsThrow(x) == x.t = "throw"

-----------------------------------------------------------------------------
(* Characters and strings *)

WhitespaceChars == {" ", "\t", "\n", "\r"}

LowerSeq == <<"a","b","c","d","e","f","g","h","i","j","k","l","m",
              "n","o","p","q","r","s","t","u","v","w","x","y","z">>
UpperSeq == <<"A","B","C","D","E","F","G","H","I","J","K","L","M",
              "N","O","P","Q","R","S","T","U","V","W","X","Y","Z">>
DigitSeq == <<"0","1","2","3","4","5","6","7","8","9">>

LowerChars == {LowerSeq[i] : i \in 1..Len(LowerSeq)}
UpperChars == {UpperSeq[i] : i \in 1..Len(UpperSeq)}
DigitChars == {DigitSeq[i] : i \in 1..Len(DigitSeq)}

\* c.toUpperCase() and c.toLowerCase() of one character
ToUpperChar(c) ==
    IF c \in LowerChars
    THEN UpperSeq[CHOOSE i \in 1..Len(LowerSeq) : LowerSeq[i] = c]
    ELSE c
ToLowerChar(c) ==
    IF c \in UpperChars
    THEN LowerSeq[CHOOSE i \in 1..Len(UpperSeq) : UpperSeq[i] = c]
    ELSE c

ToLowerCase(s) == [i \in 1..Len(s) |-> ToLowerChar(s[i])]

\* the concatenation of a sequence of strings
RECURSIVE Concat(_)
Concat(parts) ==
    IF parts = <<>> THEN <<>> ELSE Head(parts) \o Concat(Tail(parts))

\* all strings over the alphabet of length at most n
StringsUpTo(alphabet, n) == UNION {[1..k -> alphabet] : k \in 0..n}

\* the names of the fields the program treats specially
K_email == <<"e","m","a","i","l">>
K_password == <<"p","a","s","s","w","o","r","d">>
K_confirmPassword ==
    <<"c","o","n","f","i","r","m","P","a","s","s","w","o","r","d">>
K_nama == <<"n","a","m","a">>

-----------------------------------------------------------------------------
(* validator.trim and validator.escape (the validator library) *)

RECURSIVE ltrim(_)
ltrim(s) ==
    IF s # <<>> /\ Head(s) \in WhitespaceChars THEN ltrim(Tail(s)) ELSE s

RECURSIVE rtrim(_)
rtrim(s) ==
    IF s # <<>> /\ s[Len(s)] \in WhitespaceChars
    THEN rtrim(SubSeq(s, 1, Len(s) - 1))
    ELSE s

\* validator.trim(str): whitespace removed from both ends
trim(s) == rtrim(ltrim(s))

\* the grave accent, which a TLA+ string literal cannot hold
Backtick == "BACKTICK"

\* the characters validator.escape replaces
EscapedChars == {"&", "\"", "'", "<", ">", "/", "\\", Backtick}

\* a variant that leaves "<" as it is
escapeCharKeepLt(c) ==
    CASE c = "&" -> <<"&","a","m","p",";">>
      [] c = "\"" -> <<"&","q","u","o","t",";">>
      [] c = "'" -> <<"&","#","x","2","7",";">>
      [] c = ">" -> <<"&","g","t",";">>
      [] c = "/" -> <<"&","#","x","2","F",";">>
      [] c = "\\" -> <<"&","#","x","5","C",";">>
      [] c = Backtick -> <<"&","#","9","6",";">>
      [] OTHER -> <<c>>

\* the entity validator.escape puts in place of one character
escapeChar(c) ==
    CASE c = "&" -> <<"&","a","m","p",";">>
      [] c = "\"" -> <<"&","q","u","o","t",";">>
      [] c = "'" -> <<"&","#","x","2","7",";">>
      [] c = "<" -> <<"&","l","t",";">>
      [] c = ">" -> <<"&","g","t",";">>
      [] c = "/" -> <<"&","#","x","2","F",";">>
      [] c = "\\" -> <<"&","#","x","5","C",";">>
      [] c = Backtick -> <<"&","#","9","6",";">>
      [] OTHER -> <<c>>

\* validator.escape(str): each markup-significant character replaced by its
\* HTML entity
escape(s) == Concat([i \in 1..Len(s) |-> escapeChar(s[i])])

-----------------------------------------------------------------------------
(* sanitization(data) *)

\* the keys whose string values are trimmed but not escaped
IsPasswordKey(key) == key = K_password \/ key = K_confirmPassword

\* every string value escaped, whatever its key
sanitizeValueEscapeAll(key, value) ==
    IF IsString(value) THEN Str(escape(trim(value.v))) ELSE value

\* one iteration of the forEach: the sanitized value stored under a key
sanitizeValue(key, value) ==
    IF IsString(value)
    THEN IF IsPasswordKey(key)
         THEN Str(trim(value.v))
         ELSE Str(escape(trim(value.v)))
    ELSE value

sanitization(data) == [key \in DOMAIN data |-> sanitizeValue(key, data[key])]

-----------------------------------------------------------------------------
(* Sanitizer runs: sanitization applied to an object, then to its own
   output *)

\* the characters of the enumerated field values
SanAlphabet == {"a", " ", "&", "<", "'"}

K_id == <<"i","d">>

SanKeys == {K_password, K_confirmPassword, K_nama, K_email}

SanValues ==
    {Str(s) : s \in StringsUpTo(SanAlphabet, MaxLen)}
        \cup {Num(0), Num(5), Bool(TRUE), Bool(FALSE), Null}

SanInit ==
    /\ \E key \in SanKeys, value \in SanValues, extra \in BOOLEAN :
          sanData = IF extra
                    THEN (key :> value) @@ (K_id :> Num(7))
                    ELSE (key :> value)
    /\ sanOnce = << >>
    /\ sanTwice = << >>
    /\ sanPhase = "input"

Sanitize ==
    /\ sanPhase = "input"
    /\ sanOnce' = sanitization(sanData)
    /\ sanPhase' = "once"
    /\ UNCHANGED <<sanData, sanTwice>>
    /\ UNCHANGED <<valVars, cryptoVars, dbVars, appVars>>

SanitizeAgain ==
    /\ sanPhase = "once"
    /\ sanTwice' = sanitization(sanOnce)
    /\ sanPhase' = "twice"
    /\ UNCHANGED <<sanData, sanOnce>>
    /\ UNCHANGED <<valVars, cryptoVars, dbVars, appVars>>

SanNext == Sanitize \/ SanitizeAgain

\* the non-password keys of the input that hold a string
SanTextKeys ==
    {key \in DOMAIN sanData : ~IsPasswordKey(key) /\ IsString(sanData[key])}

HasEscapedChar(s) == \E i \in 1..Len(s) : s[i] \in EscapedChars

\* C1 as stated: sanitization of a non-password string field is idempotent,
\* sanitization(sanitization(d))[k] = sanitization(d)[k] for every string.
C1_Idempotent ==
    sanPhase = "twice" =>
        \A key \in SanTextKeys : sanTwice[key] = sanOnce[key]

\* C1 amended: the second sanitization of a non-password string field returns
\* the first result exactly when the trimmed value holds no character that
\* validator.escape replaces; otherwise the "&" of the entities written by the
\* first pass is escaped again.
C1_IdempotentIffNothingEscaped ==
    sanPhase = "twice" =>
        \A key \in SanTextKeys :
            (sanTwice[key] = sanOnce[key])
                <=> ~HasEscapedChar(trim(sanData[key].v))

\* C1 witness: a padded display-name value without markup characters has been
\* sanitized twice and the second pass changed nothing.
C1_Witness ==
    /\ sanPhase = "twice"
    /\ K_nama \in DOMAIN sanData
    /\ sanData[K_nama] = Str(<<" ", "a", " ">>)
    /\ sanOnce[K_nama] = Str(<<"a">>)
    /\ sanTwice[K_nama] = sanOnce[K_nama]

-----------------------------------------------------------------------------
(* String helpers of the language: split, join, String(x) *)

\* the index of the first occurrence of character c in s, 0 when there is none
RECURSIVE IndexOfFrom(_, _, _)
IndexOfFrom(s, c, i) ==
    IF i > Len(s) THEN 0
    ELSE IF s[i] = c THEN i
    ELSE IndexOfFrom(s, c, i + 1)

\* s.split(c) for a one-character separator: always at least one part
RECURSIVE Split(_, _)
Split(s, c) ==
    LET i == IndexOfFrom(s, c, 1)
    IN  IF i = 0
        THEN <<s>>
        ELSE <<SubSeq(s, 1, i - 1)>> \o Split(SubSeq(s, i + 1, Len(s)), c)

\* parts.join(sep)
RECURSIVE Join(_, _)
Join(parts, sep) ==
    IF parts = <<>> THEN <<>>
    ELSE IF Len(parts) = 1 THEN parts[1]
    ELSE parts[1] \o sep \o Join(Tail(parts), sep)

\* the decimal digits of a natural number
RECURSIVE NatToString(_)
NatToString(n) ==
    IF n < 10 THEN <<DigitSeq[n + 1]>>
    ELSE NatToString(n \div 10) \o <<DigitSeq[(n % 10) + 1]>>

\* String(x)
JsString(x) ==
    CASE x.t = "str" -> x.v
      [] x.t = "num" -> IF x.v < 0 THEN <<"-">> \o NatToString(-x.v)
                        ELSE NatToString(x.v)
      [] x.t = "bool" -> IF x.v THEN <<"t","r","u","e">> ELSE <<"f","a","l","s","e">>
      [] x.t = "null" -> <<"n","u","l","l">>
      [] OTHER -> <<"u","n","d","e","f","i","n","e","d">>

AllIn(s, chars) == \A i \in 1..Len(s) : s[i] \in chars
SomeIn(s, chars) == \E i \in 1..Len(s) : s[i] \in chars

-----------------------------------------------------------------------------
(* validator.isEmpty, validator.isEmail (the validator library, ASCII) *)

\* assertString(input): every validator function throws a TypeError for an
\* argument that is not a string
ExpectedString == "TypeError: Expected a string"

\* validator.isEmpty(str) of a string
isEmpty(s) == Len(s) = 0

LetterChars == LowerChars \cup UpperChars

\* the characters of the local part of an address
EmailUserChars ==
    LetterChars \cup DigitChars
        \cup {"!", "#", "$", "%", "&", "'", "*", "+", "-", "/", "=", "?",
              "^", "_", Backtick, "{", "|", "}", "~"}

\* a label of a domain name: letters, digits and inner hyphens
IsDomainLabel(part) ==
    /\ Len(part) >= 1
    /\ Len(part) <= 63
    /\ AllIn(part, LetterChars \cup DigitChars \cup {"-"})
    /\ part[1] # "-"
    /\ part[Len(part)] # "-"

\* the top-level domain: two letters or more, or a punycode label
IsTld(tld) ==
    \/ Len(tld) >= 2 /\ AllIn(tld, LetterChars)
    \/ /\ Len(tld) >= 4
       /\ ToLowerCase(SubSeq(tld, 1, 2)) = <<"x","n">>
       /\ AllIn(SubSeq(tld, 3, Len(tld)),
                LetterChars \cup DigitChars \cup {"-"})

\* validator.isFQDN(str) with require_tld
isFQDN(s) ==
    LET parts == Split(s, ".")
    IN  /\ Len(parts) >= 2
        /\ IsTld(parts[Len(parts)])
        /\ \A i \in 1..Len(parts) : IsDomainLabel(parts[i])

\* validator.isEmail(str) with the default options
isEmail(s) ==
    LET parts == Split(s, "@")
        domain == parts[Len(parts)]
        user == Join(SubSeq(parts, 1, Len(parts) - 1), <<"@">>)
        user_parts == Split(user, ".")
    IN  /\ Len(s) <= 254
        /\ Len(user) <= 64
        /\ Len(domain) <= 254
        /\ isFQDN(domain)
        /\ user # <<>>
        /\ user[1] # "\""
        /\ \A i \in 1..Len(user_parts) :
              user_parts[i] # <<>> /\ AllIn(user_parts[i], EmailUserChars)

-----------------------------------------------------------------------------
(* createPasswordSchema(): the password-validator rules *)

MinPasswordLength == 8
MaxPasswordLength == 100

SymbolChars ==
    {Backtick, "~", "!", "@", "#", "$", "%", "^", "&", "*", "(", ")", "-",
     "_", "=", "+", "[", "{", "}", "]", "\\", "|", ";", ":", "'", "\"", ",",
     "<", ".", ">", "/", "?"}

\* the blacklist of weak passwords
PasswordBlacklist ==
    {<<"P","a","s","s","w","o","r","d","1","2","3","!">>,
     <<"P","a","s","s","w","0","r","d","!">>,
     <<"1","2","3","4","5","6","7","8","!","A","a">>}

\* the rule list without its last rule, the blacklist
PasswordFailedRulesNoBlacklist(password) ==
    {rule \in {"min", "max", "uppercase", "lowercase", "digits", "symbols",
               "spaces"} :
        CASE rule = "min" -> ~(Len(password) >= MinPasswordLength)
          [] rule = "max" -> ~(Len(password) <= MaxPasswordLength)
          [] rule = "uppercase" -> ~SomeIn(password, UpperChars)
          [] rule = "lowercase" -> ~SomeIn(password, LowerChars)
          [] rule = "digits" -> ~SomeIn(password, DigitChars)
          [] rule = "symbols" -> ~SomeIn(password, SymbolChars)
          [] rule = "spaces" -> SomeIn(password, WhitespaceChars)}

\* schema.validate(password, {list: true}): the names of the failed rules
PasswordFailedRules(password) ==
    {rule \in {"min", "max", "uppercase", "lowercase", "digits", "symbols",
               "spaces", "oneOf"} :
        CASE rule = "min" -> ~(Len(password) >= MinPasswordLength)
          [] rule = "max" -> ~(Len(password) <= MaxPasswordLength)
          [] rule = "uppercase" -> ~SomeIn(password, UpperChars)
          [] rule = "lowercase" -> ~SomeIn(password, LowerChars)
          [] rule = "digits" -> ~SomeIn(password, DigitChars)
          [] rule = "symbols" -> ~SomeIn(password, SymbolChars)
          [] rule = "spaces" -> SomeIn(password, WhitespaceChars)
          [] rule = "oneOf" -> password \in PasswordBlacklist}

-----------------------------------------------------------------------------
(* validation(rawData, requiredFields, options) *)

defaultOptions ==
    [validatePassword |-> TRUE,
     validateEmail |-> TRUE,
     passwordMatchField |-> <<>>,
     customValidators |-> <<>>,
     allowedDomains |-> <<>>]

\* { ...defaultOptions, ...options }: an option given by the caller replaces
\* the default.  passwordMatchField is a field name, <<>> standing for null;
\* customValidators is the sequence of its <<field, function>> entries in key
\* order; allowedDomains is a sequence of strings.
mergeSettings(options) ==
    [name \in DOMAIN defaultOptions |->
        IF name \in DOMAIN options THEN options[name]
        ELSE defaultOptions[name]]

\* requiredFields pushed onto the caller's own array instead of a new one
resolveRequiredFieldsInPlace(rawData, requiredFields) ==
    LET fields ==
            IF Len(requiredFields) = 0
            THEN <<K_email, K_password>>
                     \o (IF Get(rawData, K_nama) # Undefined
                         THEN <<K_nama>> ELSE <<>>)
            ELSE requiredFields
    IN  [fields |-> fields, callerArray |-> fields]

\* The default required fields: the parameter is rebound to a new array
\* ["email", "password"], with "nama" pushed when rawData.nama !== undefined;
\* the array the caller passed is never written.
resolveRequiredFields(rawData, requiredFields) ==
    LET fields ==
            IF Len(requiredFields) = 0
            THEN <<K_email, K_password>>
                     \o (IF Get(rawData, K_nama) # Undefined
                         THEN <<K_nama>> ELSE <<>>)
            ELSE requiredFields
    IN  [fields |-> fields, callerArray |-> requiredFields]

\* the field name as it is, without the capital
formatFieldPlain(field) == field

\* field.charAt(0).toUpperCase() + field.slice(1)
formatField(field) ==
    IF field = <<>> THEN <<>>
    ELSE <<ToUpperChar(field[1])>> \o SubSeq(field, 2, Len(field))

RequiredSuffix == <<" ","i","s"," ","r","e","q","u","i","r","e","d">>
InvalidEmailMessage == <<"I","n","v","a","l","i","d"," ","e","m","a","i","l"," ","f","o","r","m","a","t">>
DomainMessagePrefix == <<"E","m","a","i","l"," ","m","u","s","t"," ","u","s","e"," ","o","n","e"," ","o","f"," ","t","h","e"," ","f","o","l","l","o","w","i","n","g"," ","d","o","m","a","i","n","s",":"," ">>
PasswordPolicyMessage ==
    <<"P","a","s","s","w","o","r","d"," ","m","u","s","t"," ","b","e"," ","a","t"," ","l","e","a","s","t"," ","8"," ","c","h","a","r","a","c","t","e","r","s",","," ","i","n","c","l","u","d","e"," ","u","p","p","e","r","c","a","s","e",","," ","l","o","w","e","r","c","a","s","e",","," ","n","u","m","b","e","r",","," ","a","n","d"," ","s","y","m","b","o","l">>
MismatchMessage == <<"P","a","s","s","w","o","r","d"," ","c","o","n","f","i","r","m","a","t","i","o","n"," ","d","o","e","s"," ","n","o","t"," ","m","a","t","c","h">>

RequiredMessage(field) == Str(formatField(field) \o RequiredSuffix)

\* !sanitizedData[field] || validator.isEmpty(String(sanitizedData[field]))
IsMissing(sanitizedData, field) ==
    LET value == Get(sanitizedData, field)
    IN  ~Truthy(value) \/ isEmpty(JsString(value))

\* requiredFields.forEach: one message for each missing field, in order
RECURSIVE requiredMessages(_, _)
requiredMessages(sanitizedData, fields) ==
    IF fields = <<>> THEN <<>>
    ELSE (IF IsMissing(sanitizedData, Head(fields))
          THEN <<RequiredMessage(Head(fields))>> ELSE <<>>)
             \o requiredMessages(sanitizedData, Tail(fields))

\* the elements of a sequence
Range(seq) == {seq[i] : i \in 1..Len(seq)}

\* sanitizedData.email.split("@")[1] is one of settings.allowedDomains
DomainAllowed(email, allowedDomains) ==
    LET parts == Split(email, "@")
    IN  Len(parts) >= 2 /\ parts[2] \in Range(allowedDomains)

\* an email block that checks the domain only of a well-formed address
emailMessagesFormatFirst(email, settings) ==
    IF ~isEmail(email) THEN <<Str(InvalidEmailMessage)>>
    ELSE IF Len(settings.allowedDomains) > 0
               /\ ~DomainAllowed(email, settings.allowedDomains)
    THEN <<Str(DomainMessagePrefix
                 \o Join(settings.allowedDomains, <<",", " ">>))>>
    ELSE <<>>

\* the email block, entered for a non-empty string
emailMessages(email, settings) ==
    (IF ~isEmail(email) THEN <<Str(InvalidEmailMessage)>> ELSE <<>>)
        \o (IF Len(settings.allowedDomains) > 0
               /\ ~DomainAllowed(email, settings.allowedDomains)
            THEN <<Str(DomainMessagePrefix
                         \o Join(settings.allowedDomains, <<",", " ">>))>>
            ELSE <<>>)

\* the password block, entered for a non-empty string
passwordMessages(password, sanitizedData, settings) ==
    (IF PasswordFailedRules(password) # {}
     THEN <<Str(PasswordPolicyMessage)>> ELSE <<>>)
        \o (IF /\ settings.passwordMatchField # <<>>
               /\ Truthy(Get(sanitizedData, settings.passwordMatchField))
               /\ Str(password) # Get(sanitizedData, settings.passwordMatchField)
            THEN <<Str(MismatchMessage)>>
            ELSE <<>>)

\* A custom validator is [kind |-> "const", result |-> x], a function that
\* returns x whatever it is given, or [kind |-> "field", fieldName, minLength,
\* maxLength], the function createFieldValidator builds from these rules (0:
\* the rule is not set).  value.length is undefined for a number or a
\* boolean, which fails no comparison, and throws for null.
applyValidator(fn, value, allData) ==
    IF fn.kind = "const" THEN fn.result
    ELSE IF value.t = "null" /\ (fn.minLength # 0 \/ fn.maxLength # 0)
    THEN Throw("TypeError: Cannot read properties of null")
    ELSE IF fn.minLength # 0 /\ IsString(value) /\ Len(value.v) < fn.minLength
    THEN Str(fn.fieldName \o <<" ","m","u","s","t"," ","b","e"," ","a","t"," ","l","e","a","s","t"," ">>
                 \o NatToString(fn.minLength) \o <<" ","c","h","a","r","a","c","t","e","r","s">>)
    ELSE IF fn.maxLength # 0 /\ IsString(value) /\ Len(value.v) > fn.maxLength
    THEN Str(fn.fieldName \o <<" ","c","a","n","n","o","t"," ","e","x","c","e","e","d"," ">>
                 \o NatToString(fn.maxLength) \o <<" ","c","h","a","r","a","c","t","e","r","s">>)
    ELSE Bool(TRUE)

\* Object.keys(settings.customValidators).forEach: the results other than
\* true of the validators whose field is present, in key order
RECURSIVE customResults(_, _)
customResults(sanitizedData, validators) ==
    IF validators = <<>> THEN <<>>
    ELSE LET field == Head(validators)[1]
             fn == Head(validators)[2]
             result == applyValidator(fn, sanitizedData[field], sanitizedData)
         IN  (IF field \in DOMAIN sanitizedData /\ result # Bool(TRUE)
              THEN <<result>> ELSE <<>>)
                 \o customResults(sanitizedData, Tail(validators))

\* an outcome that counts only the texts among the messages
ValidationOutcomeTextsOnly(messages, sanitizedData) ==
    [t |-> "return",
     messages |-> messages,
     data |-> sanitizedData,
     isValid |-> \A i \in 1..Len(messages) : ~IsString(messages[i])]

\* the returned object {messages, data: sanitizedData, isValid}
ValidationOutcome(messages, sanitizedData) ==
    [t |-> "return",
     messages |-> messages,
     data |-> sanitizedData,
     isValid |-> Len(messages) = 0]

\* validation: the outcome {messages, data, isValid}, or the exception thrown.
\* The guards of the email and password blocks hand the sanitized value to
\* validator.isEmpty, which throws for a truthy value that is not a string.
validation(rawData, requiredFields, options) ==
    LET settings == mergeSettings(options)
        sanitizedData == sanitization(rawData)
        fields == resolveRequiredFields(rawData, requiredFields).fields
        email == Get(sanitizedData, K_email)
        password == Get(sanitizedData, K_password)
        emailGuard == settings.validateEmail /\ Truthy(email)
        passwordGuard == settings.validatePassword /\ Truthy(password)
        custom == customResults(sanitizedData, settings.customValidators)
        messages ==
            requiredMessages(sanitizedData, fields)
                \o (IF emailGuard THEN emailMessages(email.v, settings)
                    ELSE <<>>)
                \o (IF passwordGuard
                    THEN passwordMessages(password.v, sanitizedData, settings)
                    ELSE <<>>)
                \o custom
    IN  IF emailGuard /\ ~IsString(email) THEN Throw(ExpectedString)
        ELSE IF passwordGuard /\ ~IsString(password) THEN Throw(ExpectedString)
        ELSE IF \E i \in 1..Len(custom) : IsThrow(custom[i])
        THEN CHOOSE e \in Range(custom) : IsThrow(e)
        ELSE ValidationOutcome(messages, sanitizedData)

-----------------------------------------------------------------------------
(* Validator runs: one call of validation on a submitted form *)

K_confirm == <<"c","o","n","f","i","r","m">>

\* a field the form does not hold
Absent == [t |-> "absent", v |-> 0]

\* the object with the given values under the five field names, without the
\* absent ones
FormObject(email, password, confirmPassword, nama, confirm) ==
    LET all == (K_email :> email) @@ (K_password :> password)
                   @@ (K_confirmPassword :> confirmPassword)
                   @@ (K_nama :> nama) @@ (K_confirm :> confirm)
    IN  [key \in {k \in DOMAIN all : all[k] # Absent} |-> all[key]]

StrongPassword == <<"A","a","1","!","a","a","a","a">>
MarkupPassword == <<"A","a","1","!","<","a","a","a">>

EmailSamples ==
    {Absent, Str(<<>>), Str(<<"a","@","b",".","c","o">>), Str(<<" ","a","@","b",".","c","o"," ">>),
     Str(<<"n","o","t","-","a","n","-","e","m","a","i","l">>), Num(5)}

PasswordSamples ==
    {Absent, Str(<<>>), Str(StrongPassword), Str(MarkupPassword),
     Str(<<"s","h","o","r","t","1","!">>), Num(5)}

ConfirmPasswordSamples == {Absent, Str(StrongPassword), Str(<<"d","i","f","f","e","r","e","n","t">>)}

NamaSamples == {Absent, Str(<<>>), Str(<<"B","u","d","i">>)}

ConfirmSamples == {Absent, Str(MarkupPassword)}

RequiredFieldsSamples == {<<>>, <<K_nama>>, <<K_password, K_email>>}

OptionsSamples ==
    [validateEmail : BOOLEAN,
     validatePassword : BOOLEAN,
     passwordMatchField : {<<>>, K_confirmPassword, K_confirm},
     allowedDomains : {<<>>, <<<<"b",".","c","o">>>>}]

ValInit ==
    /\ \E email \in EmailSamples, password \in PasswordSamples,
          confirmPassword \in ConfirmPasswordSamples, nama \in NamaSamples,
          confirm \in ConfirmSamples,
          requiredFields \in RequiredFieldsSamples,
          options \in OptionsSamples :
            valArgs = [rawData |-> FormObject(email, password,
                                              confirmPassword, nama, confirm),
                       requiredFields |-> requiredFields,
                       options |-> options]
    /\ callerFields = valArgs.requiredFields
    /\ valChecked = <<>>
    /\ valResult = Undefined
    /\ valPhase = "input"

\* the caller passes its array callerFields as requiredFields
Validate ==
    /\ valPhase = "input"
    /\ valResult' = validation(valArgs.rawData, callerFields, valArgs.options)
    /\ valChecked' = resolveRequiredFields(valArgs.rawData, callerFields).fields
    /\ callerFields' =
           resolveRequiredFields(valArgs.rawData, callerFields).callerArray
    /\ valPhase' = "done"
    /\ UNCHANGED valArgs
    /\ UNCHANGED <<sanVars, cryptoVars, dbVars, appVars>>

\* the caller reads the outcome and drops it
ValRelease ==
    /\ valPhase = "done"
    /\ valPhase' = "released"
    /\ UNCHANGED <<valArgs, callerFields, valChecked, valResult>>
    /\ UNCHANGED <<sanVars, cryptoVars, dbVars, appVars>>

ValNext == Validate \/ ValRelease

ValReturned == valPhase = "done" /\ valResult.t = "return"

\* C2 as stated: validation raises no exception for any input whose values
\* are strings or other scalars; it always returns an outcome.
C2_NeverThrows == valPhase = "done" => valResult.t = "return"

\* the trimmed string submitted under a field, <<>> when there is none
SubmittedTrimmed(field) ==
    LET value == Get(valArgs.rawData, field)
    IN  IF IsString(value) THEN trim(value.v) ELSE <<>>

\* C8 as stated: with passwordMatchField naming a field f, validatePassword
\* enabled and a non-empty password, the mismatch message is reported if and
\* only if the submitted value of f is non-empty and differs from the submitted
\* password after trimming (identical values report none).
C8_MismatchIffValuesDiffer ==
    (/\ ValReturned
     /\ valArgs.options.passwordMatchField # <<>>
     /\ valArgs.options.validatePassword
     /\ SubmittedTrimmed(K_password) # <<>>)
        => ((Str(MismatchMessage) \in Range(valResult.messages))
              <=> (/\ SubmittedTrimmed(valArgs.options.passwordMatchField) # <<>>
                   /\ SubmittedTrimmed(valArgs.options.passwordMatchField)
                          # SubmittedTrimmed(K_password)))

\* the fields C10 expects to be checked for presence
ExpectedRequiredFields ==
    IF valArgs.requiredFields = <<>>
    THEN {K_email, K_password}
             \cup (IF K_nama \in DOMAIN valArgs.rawData THEN {K_nama} ELSE {})
    ELSE Range(valArgs.requiredFields)

\* C10: with an empty requiredFields the fields checked for presence are
\* email and password, plus nama exactly when the raw input has the key nama;
\* with a non-empty list exactly the given fields are checked; the outcome
\* holds a required-field message exactly for the missing ones among them;
\* and the caller's array is left as it was passed.
C10_DefaultRequiredFields ==
    valPhase = "done" =>
        /\ Range(valChecked) = ExpectedRequiredFields
        /\ callerFields = valArgs.requiredFields
        /\ valResult.t = "return" =>
              \A field \in {K_email, K_password, K_nama, K_confirm} :
                  (RequiredMessage(field) \in Range(valResult.messages))
                      <=> (/\ field \in ExpectedRequiredFields
                           /\ IsMissing(sanitization(valArgs.rawData), field))

\* C10 witness: a form with an empty nama was validated with no required
\* fields given; email, password and nama were checked and "Nama is required"
\* is the only message.
C10_Witness ==
    /\ ValReturned
    /\ valArgs.requiredFields = <<>>
    /\ Get(valArgs.rawData, K_nama) = Str(<<>>)
    /\ valChecked = <<K_email, K_password, K_nama>>
    /\ valResult.messages = <<Str(<<"N","a","m","a"," ","i","s"," ","r","e","q","u","i","r","e","d">>)>>

-----------------------------------------------------------------------------
(* utils/bcript.js: pepper, hashing, comparison *)

SALT_ROUNDS == 10

\* process.env.PASSWORD_PEPPER, read once when the module loads
PEPPER == env.PASSWORD_PEPPER

HASH_ALGORITHM == "sha256"

FallbackPepper == <<"f","a","l","l","b","a","c","k","-","p","e","p","p","e","r">>

\* the first operand of ||, unless it is falsy
OrElse(x, y) == IF Truthy(x) THEN x ELSE y

\* crypto.createHmac(algorithm, key).update(data).digest("hex"): the digest is
\* a function of the algorithm, the key and the data, and the model takes
\* different inputs to different digests
Hmac(algorithm, key, data) ==
    [t |-> "digest", v |-> <<algorithm, key, data>>]

\* addPepper(password): the HMAC of the password under PEPPER, or under the
\* built-in fallback when PEPPER is not set; throws for a falsy password, and
\* update() throws for data that is not a string
addPepper(password) ==
    IF ~Truthy(password) THEN Throw("Error: Password cannot be empty.")
    ELSE IF ~IsString(password) THEN Throw("TypeError: invalid data argument")
    ELSE Hmac(HASH_ALGORITHM, OrElse(PEPPER, Str(FallbackPepper)).v,
              password.v)

\* bcrypt.hash(data, rounds) with the salt it drew: the stored string names
\* the cost and the salt and holds the hash of the data under them
bcryptHash(data, rounds, salt) ==
    [t |-> "bcrypt", v |-> [cost |-> rounds, salt |-> salt, hashed |-> data]]

\* bcrypt.compare(data, hash): the data hashed again under the stored cost
\* and salt gives the stored string
bcryptCompare(data, hash) ==
    Bool(hash.t = "bcrypt"
            /\ bcryptHash(data, hash.v.cost, hash.v.salt) = hash)

\* encrypt(password); salt is the salt bcrypt draws
encrypt(password, salt) ==
    LET pepperedPassword == addPepper(password)
    IN  IF IsThrow(pepperedPassword) THEN pepperedPassword
        ELSE bcryptHash(pepperedPassword, SALT_ROUNDS, salt)

\* encryptSync(password)
encryptSync(password, salt) ==
    LET pepperedPassword == addPepper(password)
    IN  IF IsThrow(pepperedPassword) THEN pepperedPassword
        ELSE bcryptHash(pepperedPassword, SALT_ROUNDS, salt)

\* compare without the pepper step
compareUnpeppered(password, hash) ==
    IF ~Truthy(password) THEN Throw("Error: Password cannot be empty.")
    ELSE IF ~IsString(password) THEN Throw("TypeError: invalid data argument")
    ELSE bcryptCompare(Hmac(HASH_ALGORITHM, <<>>, password.v), hash)

\* compare(password, hash)
compare(password, hash) ==
    LET pepperedPassword == addPepper(password)
    IN  IF IsThrow(pepperedPassword) THEN pepperedPassword
        ELSE bcryptCompare(pepperedPassword, hash)

\* compareSync(password, hash)
compareSync(password, hash) ==
    LET pepperedPassword == addPepper(password)
    IN  IF IsThrow(pepperedPassword) THEN pepperedPassword
        ELSE bcryptCompare(pepperedPassword, hash)

-----------------------------------------------------------------------------
(* utils/bcript.js: generateToken *)

\* A number argument is held in halves: Half(3) is 1.5.
Half(h) == [t |-> "half", v |-> h]
NaN == [t |-> "nan", v |-> 0]

DefaultTokenLength == 32

\* the largest size crypto.randomBytes accepts, 2^31 - 1
MaxRandomBytes == 2147483647

\* the value of a string of decimal digits
RECURSIVE DigitsValue(_)
DigitsValue(s) ==
    IF s = <<>> THEN 0
    ELSE 10 * DigitsValue(SubSeq(s, 1, Len(s) - 1))
             + (CHOOSE d \in 0..9 : DigitSeq[d + 1] = s[Len(s)])

\* Number(x), in halves, or NaN
ToNumber(x) ==
    CASE x.t = "half" -> x
      [] x.t = "num" -> Half(2 * x.v)
      [] x.t = "bool" -> IF x.v THEN Half(2) ELSE Half(0)
      [] x.t = "null" -> Half(0)
      [] x.t = "str" ->
            IF trim(x.v) = <<>> THEN Half(0)
            ELSE IF AllIn(trim(x.v), DigitChars)
            THEN Half(2 * DigitsValue(trim(x.v)))
            ELSE NaN
      [] OTHER -> NaN

HexSeq == <<"0","1","2","3","4","5","6","7","8","9","a","b","c","d","e","f">>

\* buffer.toString("hex"): two digits for each byte
toHex(bytes) ==
    Concat([i \in 1..Len(bytes) |->
               <<HexSeq[(bytes[i] \div 16) + 1], HexSeq[(bytes[i] % 16) + 1]>>])

\* crypto.randomBytes(size) for a number size: a size that is NaN, negative
\* or above the maximum is out of range; otherwise size >>> 0 bytes are
\* drawn (fill stands for the bytes drawn)
randomBytes(size, fill) ==
    IF size.t = "nan" \/ size.v < 0 \/ (size.v + 1) \div 2 > MaxRandomBytes
    THEN Throw("RangeError: size is out of range")
    ELSE [t |-> "buffer", v |-> [i \in 1..(size.v \div 2) |-> fill]]

\* generateToken(length = 32)
generateToken(length, fill) ==
    LET size == ToNumber(IF length = Undefined THEN Num(DefaultTokenLength)
                         ELSE length)
    IN  IF size.t = "nan" \/ size.v <= 0
        THEN Throw("Error: Token length must be a positive number.")
        ELSE LET bytes == randomBytes(size, fill)
             IN  IF IsThrow(bytes) THEN bytes ELSE Str(toHex(bytes.v))

-----------------------------------------------------------------------------
(* Credential runs: hashing, comparison and token calls in one process *)

PepperSamples == {Undefined, Str(<<>>), Str(<<"s","3","c","r","e","t">>)}

NodeEnvSamples == {"production", "development"}

CryptoPasswords == {Str(<<>>), Str(<<"p","w">>), Str(<<"P","w">>)}

Salts == 1..NumSalts

ByteSamples == {0, 171}

TokenArgs ==
    {Undefined, NaN, Null, Bool(TRUE), Str(<<"a","b","c">>)}
        \cup {Half(h) : h \in -2..MaxTokenHalves}

CryptoInit ==
    /\ \E pepper \in PepperSamples, mode \in NodeEnvSamples :
          env = [PASSWORD_PEPPER |-> pepper, NODE_ENV |-> mode]
    /\ hashes = {}
    /\ lastCompare = Undefined
    /\ lastToken = Undefined

\* encrypt or encryptSync is called; the caller keeps the hash it got
Encrypt(password, salt, sync) ==
    /\ Cardinality(hashes) < MaxHashes
    /\ LET hash == IF sync THEN encryptSync(password, salt)
                   ELSE encrypt(password, salt)
       IN  hashes' = IF IsThrow(hash) THEN hashes
                     ELSE hashes \cup {[password |-> password, hash |-> hash]}
    /\ UNCHANGED <<env, lastCompare, lastToken>>
    /\ UNCHANGED <<sanVars, valVars, dbVars, appVars>>

\* compare or compareSync is called with a password and a stored hash
Compare(password, stored, sync) ==
    /\ stored \in hashes
    /\ lastCompare' = [t |-> "compare",
                       password |-> password,
                       stored |-> stored,
                       result |-> IF sync
                                  THEN compareSync(password, stored.hash)
                                  ELSE compare(password, stored.hash)]
    /\ UNCHANGED <<env, hashes, lastToken>>
    /\ UNCHANGED <<sanVars, valVars, dbVars, appVars>>

GenerateToken(length, fill) ==
    /\ lastToken' = [t |-> "token",
                     length |-> length,
                     result |-> generateToken(length, fill)]
    /\ UNCHANGED <<env, hashes, lastCompare>>
    /\ UNCHANGED <<sanVars, valVars, dbVars, appVars>>

CryptoNext ==
    \/ \E password \in CryptoPasswords, salt \in Salts, sync \in BOOLEAN :
          Encrypt(password, salt, sync)
    \/ \E password \in CryptoPasswords, stored \in hashes, sync \in BOOLEAN :
          Compare(password, stored, sync)
    \/ \E length \in TokenArgs, fill \in ByteSamples :
          GenerateToken(length, fill)

PepperAbsentInProduction ==
    env.NODE_ENV = "production" /\ ~Truthy(env.PASSWORD_PEPPER)

\* C7 as stated: with no pepper secret in production mode, hashing and
\* verification fail; no hash is computed under the built-in fallback pepper.
C7_NoFallbackInProduction ==
    PepperAbsentInProduction =>
        /\ hashes = {}
        /\ lastCompare # Undefined => IsThrow(lastCompare.result)

\* the length argument is a positive integer (the default counts as 32)
IsPositiveInteger(length) ==
    \/ length = Undefined
    \/ length.t = "half" /\ length.v > 0 /\ length.v % 2 = 0

ExpectedTokenLength(length) ==
    IF length = Undefined THEN 2 * DefaultTokenLength ELSE length.v

\* C9 as stated: generateToken returns a hex string of twice the byte length
\* for a positive integer, and fails for every other argument.
C9_TokenOrError ==
    lastToken # Undefined =>
        IF IsPositiveInteger(lastToken.length)
        THEN /\ IsString(lastToken.result)
             /\ Len(lastToken.result.v) = ExpectedTokenLength(lastToken.length)
             /\ AllIn(lastToken.result.v, Range(HexSeq))
        ELSE IsThrow(lastToken.result)

-----------------------------------------------------------------------------
(* utils/db.js: connectDB *)

Callers == 1..MaxCallers

\* the module is loaded: let isConnected = false, and nobody has called yet
DbInit ==
    /\ isConnected = FALSE
    /\ connectCalls = 0
    /\ listeners = [error |-> 0, disconnected |-> 0]
    /\ dbPc = [caller \in Callers |-> "idle"]
    /\ exited = FALSE

\* connectDB() up to its await: a set flag returns mongoose at once;
\* otherwise mongoose.connect is called and the caller waits for it
ConnectDBCall(caller) ==
    /\ ~exited
    /\ dbPc[caller] = "idle"
    /\ IF isConnected
       THEN /\ dbPc' = [dbPc EXCEPT ![caller] = "returned"]
            /\ UNCHANGED connectCalls
       ELSE /\ connectCalls' = connectCalls + 1
            /\ dbPc' = [dbPc EXCEPT ![caller] = "awaiting"]
    /\ UNCHANGED <<isConnected, listeners, exited>>
    /\ UNCHANGED <<sanVars, valVars, cryptoVars, appVars>>

\* the awaited mongoose.connect resolved: the flag is set and the two
\* listeners are registered on mongoose.connection
ConnectResolved(caller) ==
    /\ ~exited
    /\ dbPc[caller] = "awaiting"
    /\ isConnected' = TRUE
    /\ listeners' = [error |-> listeners.error + 1,
                     disconnected |-> listeners.disconnected + 1]
    /\ dbPc' = [dbPc EXCEPT ![caller] = "returned"]
    /\ UNCHANGED <<connectCalls, exited>>
    /\ UNCHANGED <<sanVars, valVars, cryptoVars, appVars>>

\* the awaited mongoose.connect rejected: the catch block ends the process
ConnectRejected(caller) ==
    /\ ~exited
    /\ dbPc[caller] = "awaiting"
    /\ exited' = TRUE
    /\ UNCHANGED <<isConnected, connectCalls, listeners, dbPc>>
    /\ UNCHANGED <<sanVars, valVars, cryptoVars, appVars>>

\* the caller has its result and may call again
ConnectDBReturned(caller) ==
    /\ ~exited
    /\ dbPc[caller] = "returned"
    /\ dbPc' = [dbPc EXCEPT ![caller] = "idle"]
    /\ UNCHANGED <<isConnected, connectCalls, listeners, exited>>
    /\ UNCHANGED <<sanVars, valVars, cryptoVars, appVars>>

DbNext ==
    \E caller \in Callers :
        \/ ConnectDBCall(caller)
        \/ ConnectResolved(caller)
        \/ ConnectRejected(caller)
        \/ ConnectDBReturned(caller)

\* C6 as stated: over any interleaving of connectDB calls mongoose.connect is
\* invoked at most once and each connection listener is registered at most
\* once.
C6_SingleConnection ==
    /\ connectCalls <= 1
    /\ listeners.error <= 1
    /\ listeners.disconnected <= 1

-----------------------------------------------------------------------------
(* models/users.js: the users collection *)

\* the email setters of the schema, trim and lowercase, which mongoose applies
\* to a document's value and to a query filter's
castEmail(value) ==
    IF IsString(value) THEN Str(ToLowerCase(trim(value.v)))
    ELSE IF value.t \in {"num", "bool"} THEN Str(JsString(value))
    ELSE value

NotFound == Null

\* LogInCollection.findOne({ email }): a document with that email, or null
findOne(collection, email) ==
    IF \E doc \in collection : Str(doc.email) = castEmail(email)
    THEN CHOOSE doc \in collection : Str(doc.email) = castEmail(email)
    ELSE NotFound

\* LogInCollection.insertOne(newUser): the document is cast and validated
\* against the schema (nama, email and password required; a bcrypt string is
\* longer than the password's minimum length), and the unique index on email
\* rejects a second document with the same email
insertOne(collection, newUser) ==
    LET doc == [nama |-> trim(newUser.nama),
                email |-> castEmail(Str(newUser.email)).v,
                password |-> newUser.password]
    IN  IF doc.nama = <<>> \/ doc.email = <<>>
        THEN Throw("ValidationError: User validation failed")
        ELSE IF \E other \in collection : other.email = doc.email
        THEN Throw("MongoServerError: E11000 duplicate key error")
        ELSE [t |-> "inserted", v |-> collection \cup {doc}]

-----------------------------------------------------------------------------
(* The request handlers *)

Rids == 1..MaxRequests
Sids == 1..NumSessions

\* a session without a user
NoUser == Null

NoResponse == [status |-> 0, kind |-> "none", target |-> "", flash |-> Undefined]

IdleRequest ==
    [route |-> "none", sid |-> 0, body |-> << >>, pc |-> "idle",
     hasil |-> Undefined, found |-> Undefined, hashed |-> Undefined,
     res |-> NoResponse]

\* res.status(status).redirect(target) after req.flash("message", [.., flash])
Redirect(status, target, flash) ==
    [status |-> status, kind |-> "redirect", target |-> target,
     flash |-> flash]

\* res.status(status).render(view)
Render(status, view) ==
    [status |-> status, kind |-> "render", target |-> view,
     flash |-> Undefined]

Arr(elements) == [t |-> "array", v |-> elements]

UndefinedLength == Throw("TypeError: Cannot read properties of undefined")

\* a reading that yields an empty list where the property is missing
hasilMessageOrEmpty(hasil) ==
    IF "message" \in DOMAIN hasil THEN Arr(hasil["message"]) ELSE Arr(<<>>)

\* hasil.message: the property "message" of the object validation returned,
\* undefined for an object that has no such property
hasilMessage(hasil) ==
    IF "message" \in DOMAIN hasil THEN Arr(hasil["message"]) ELSE Undefined

\* the message a catch block flashes for a thrown error
ErrorMessage(error) == [t |-> "error", v |-> error.v]

\* signup's catch block
signupCatch(req, error) ==
    [req EXCEPT !.pc = "done",
                !.res = Redirect(500, "/signup", ErrorMessage(error))]

\* login's catch block
loginCatch(req, error) ==
    [req EXCEPT !.pc = "done",
                !.res = Redirect(500, "/login",
                                 Str(<<"T","e","r","j","a","d","i"," ","k","e","s","a","l","a","h","a","n">>))]

\* The outcome of one step of a handler: the request as it is after the
\* step, the users collection, and the user written to the request's session
\* (Undefined: the session is not written).
StepOutcome(req, collection, user) ==
    [req |-> req, accounts |-> collection, user |-> user]

\* encript(password), which signup imports from utils/bcript.js; the module
\* exports its hashing function under the name encrypt
encript(password, salt) == encrypt(password, salt)

SeedName == <<"B","u","d","i">>
SeedEmail == <<"a","@","b",".","c","o">>

\* the bodies a client posts to /signup and /login
BodySamples ==
    {FormObject(Str(SeedEmail), Str(StrongPassword), Absent,
                Str(SeedName), Absent),
     FormObject(Str(<<" ","C","@","d",".","c","o"," ">>), Str(MarkupPassword), Absent,
                Str(<<"A","n","i">>), Absent),
     FormObject(Str(<<"n","o","t","-","a","n","-","e","m","a","i","l">>), Str(StrongPassword), Absent,
                Str(SeedName), Absent)}

\* validation(req.body) for each body a client posts: the call takes nothing
\* from the state of the application
validationOf == [body \in BodySamples |-> validation(body, <<>>, << >>)]

\* signup from its start to the first await: validation(req.body)
signupStart(req) ==
    LET hasil == validationOf[req.body]
    IN  IF IsThrow(hasil) THEN signupCatch(req, hasil)
        ELSE [req EXCEPT !.pc = "afterValidation", !.hasil = hasil]

\* signup resumed after an await
signupResume(req, collection, salt) ==
    CASE req.pc = "afterValidation" ->
            LET message == hasilMessage(req.hasil)
            IN  IF message.t # "array"
                THEN StepOutcome(signupCatch(req, UndefinedLength),
                                 collection, Undefined)
                ELSE IF Len(message.v) > 0
                THEN StepOutcome(
                         [req EXCEPT !.pc = "done",
                                     !.res = Redirect(400, "/signup",
                                                      message.v[1])],
                         collection, Undefined)
                ELSE StepOutcome([req EXCEPT !.pc = "awaitFindOne"],
                                 collection, Undefined)
      [] req.pc = "awaitFindOne" ->
            LET existingUser == findOne(collection,
                                        Get(req.hasil.data, K_email))
                hashedPass == encript(Get(req.hasil.data, K_password), salt)
            IN  IF existingUser # NotFound
                THEN StepOutcome(
                         [req EXCEPT !.pc = "done",
                                     !.found = existingUser,
                                     !.res = Redirect(400, "/signup",
                                         Str(<<"E","m","a","i","l"," ","a","l","r","e","a","d","y"," ","e","x","i","s","t","s">>))],
                         collection, Undefined)
                ELSE IF IsThrow(hashedPass)
                THEN StepOutcome(
                         signupCatch([req EXCEPT !.found = existingUser],
                                     hashedPass),
                         collection, Undefined)
                ELSE StepOutcome(
                         [req EXCEPT !.pc = "awaitEncript",
                                     !.found = existingUser,
                                     !.hashed = hashedPass],
                         collection, Undefined)
      [] req.pc = "awaitEncript" ->
            IF ~IsString(Get(req.hasil.data, K_nama))
                  \/ ~IsString(Get(req.hasil.data, K_email))
            THEN StepOutcome(signupCatch(req, UndefinedLength),
                             collection, Undefined)
            ELSE StepOutcome([req EXCEPT !.pc = "awaitInsert"],
                             collection, Undefined)
      [] req.pc = "awaitInsert" ->
            LET newUser == [nama |-> trim(req.hasil.data[K_nama].v),
                            email |-> trim(req.hasil.data[K_email].v),
                            password |-> req.hashed]
                inserted == insertOne(collection, newUser)
            IN  IF IsThrow(inserted)
                THEN StepOutcome(signupCatch(req, inserted),
                                 collection, Undefined)
                ELSE StepOutcome(
                         [req EXCEPT !.pc = "done",
                                     !.res = Redirect(302, "/protected-page",
                                                      Undefined)],
                         inserted.v,
                         [nama |-> newUser.nama, email |-> newUser.email])

\* login from its start to the first await: validation(req.body)
loginStart(req) ==
    LET hasil == validationOf[req.body]
    IN  IF IsThrow(hasil) THEN loginCatch(req, hasil)
        ELSE [req EXCEPT !.pc = "afterValidation", !.hasil = hasil]

\* login resumed after an await
loginResume(req, collection) ==
    CASE req.pc = "afterValidation" ->
            LET message == hasilMessage(req.hasil)
            IN  IF message.t # "array"
                THEN StepOutcome(loginCatch(req, UndefinedLength),
                                 collection, Undefined)
                ELSE IF Len(message.v) > 0
                THEN StepOutcome(
                         [req EXCEPT !.pc = "done",
                                     !.res = Redirect(400, "/login",
                                                      message.v[1])],
                         collection, Undefined)
                ELSE StepOutcome([req EXCEPT !.pc = "awaitFindOne"],
                                 collection, Undefined)
      [] req.pc = "awaitFindOne" ->
            LET user == findOne(collection, Get(req.body, K_email))
            IN  IF user = NotFound
                THEN StepOutcome(
                         [req EXCEPT !.pc = "done",
                                     !.found = user,
                                     !.res = Redirect(400, "/login",
                                         Str(<<"E","m","a","i","l"," ","t","i","d","a","k"," ","d","i","t","e","m","u","k","a","n">>))],
                         collection, Undefined)
                ELSE StepOutcome(
                         [req EXCEPT !.pc = "awaitCompare", !.found = user],
                         collection, Undefined)
      [] req.pc = "awaitCompare" ->
            LET isMatch == compare(Get(req.body, K_password),
                                   req.found.password)
            IN  IF IsThrow(isMatch)
                THEN StepOutcome(loginCatch(req, isMatch),
                                 collection, Undefined)
                ELSE IF isMatch # Bool(TRUE)
                THEN StepOutcome(
                         [req EXCEPT !.pc = "done",
                                     !.res = Redirect(400, "/login",
                                         Str(<<"P","a","s","s","w","o","r","d"," ","s","a","l","a","h">>))],
                         collection, Undefined)
                ELSE StepOutcome(
                         [req EXCEPT !.pc = "done",
                                     !.res = Redirect(302, "/protected-page",
                                                      Undefined)],
                         collection,
                         [nama |-> req.found.nama,
                          email |-> req.found.email])

\* isLoggedIn lets every request through
isLoggedInAlways(user) == TRUE

\* isLoggedIn: next() when req.session?.user is set, next(err) otherwise
isLoggedIn(user) == user # NoUser

\* The handlers registered after the routes, in order, with the number of
\* parameters each declares: express hands an error only to a handler that
\* declares four.
ErrorHandlers ==
    <<[name |-> "errorHandling", arity |-> 3],
      [name |-> "appErrorHandler", arity |-> 4]>>

\* the response to next(err)
dispatchError(err) ==
    LET first == CHOOSE i \in 1..Len(ErrorHandlers) :
                     /\ ErrorHandlers[i].arity = 4
                     /\ \A j \in 1..(i - 1) : ErrorHandlers[j].arity # 4
    IN  IF ErrorHandlers[first].name = "errorHandling"
        THEN Redirect(302, "/login", ErrorMessage(err))
        ELSE Render(500, "error")

\* GET /protected-page: isLoggedIn, then protectedPage
protectedPageRoute(user) ==
    IF isLoggedIn(user)
    THEN Render(200, "protected-page")
    ELSE dispatchError(Throw("Anda belum login!"))

-----------------------------------------------------------------------------
(* The application: requests against the users collection and the sessions *)

AppPepper == Str(<<"s","3","c","r","e","t">>)


\* What the users collection holds when the process starts: the collection
\* outlives the process, and its unique index has kept the emails distinct.
SeedAccounts ==
    {{},
     {[nama |-> SeedName, email |-> SeedEmail,
       password |-> encrypt(Str(StrongPassword), 1)]}}

\* What a session holds when the process starts: the sessions are kept in
\* the database for fourteen days, with the user an earlier run stored.
SeedSessionUsers == {NoUser, [nama |-> SeedName, email |-> SeedEmail]}

AppInit ==
    /\ accounts \in SeedAccounts
    /\ sessions \in [Sids -> SeedSessionUsers]
    /\ reqs = [r \in Rids |-> IdleRequest]

NewRequest(route, sid, body) ==
    [IdleRequest EXCEPT !.route = route, !.sid = sid, !.body = body]

\* a step that does not write req.session.user empties the session
WriteSessionOrClear(sid, user) ==
    [sessions EXCEPT ![sid] = IF user = Undefined THEN NoUser ELSE user]

\* the session's user after a step that may have written req.session.user
WriteSession(sid, user) ==
    IF user = Undefined THEN sessions
    ELSE [sessions EXCEPT ![sid] = user]

\* POST /signup arrives and signup runs to its first await
ReceiveSignup(r, sid, body) ==
    /\ reqs[r].pc = "idle"
    /\ reqs' = [reqs EXCEPT ![r] = signupStart(NewRequest("signup", sid, body))]
    /\ UNCHANGED <<accounts, sessions>>
    /\ UNCHANGED <<sanVars, valVars, cryptoVars, dbVars>>

\* signup resumes after an await and runs to the next one, or to its response
SignupResume(r, salt) ==
    /\ reqs[r].route = "signup"
    /\ reqs[r].pc \notin {"idle", "done"}
    /\ LET out == signupResume(reqs[r], accounts, salt)
       IN  /\ reqs' = [reqs EXCEPT ![r] = out.req]
           /\ accounts' = out.accounts
           /\ sessions' = WriteSession(reqs[r].sid, out.user)
    /\ UNCHANGED <<sanVars, valVars, cryptoVars, dbVars>>

\* POST /login arrives and login runs to its first await
ReceiveLogin(r, sid, body) ==
    /\ reqs[r].pc = "idle"
    /\ reqs' = [reqs EXCEPT ![r] = loginStart(NewRequest("login", sid, body))]
    /\ UNCHANGED <<accounts, sessions>>
    /\ UNCHANGED <<sanVars, valVars, cryptoVars, dbVars>>

\* login resumes after an await and runs to the next one, or to its response
LoginResume(r) ==
    /\ reqs[r].route = "login"
    /\ reqs[r].pc \notin {"idle", "done"}
    /\ LET out == loginResume(reqs[r], accounts)
       IN  /\ reqs' = [reqs EXCEPT ![r] = out.req]
           /\ accounts' = out.accounts
           /\ sessions' = WriteSession(reqs[r].sid, out.user)
    /\ UNCHANGED <<sanVars, valVars, cryptoVars, dbVars>>

\* GET /logout: the session is destroyed, then the client is sent to /login
Logout(r, sid) ==
    /\ reqs[r].pc = "idle"
    /\ sessions' = [sessions EXCEPT ![sid] = NoUser]
    /\ reqs' = [reqs EXCEPT ![r] =
                   [NewRequest("logout", sid, << >>) EXCEPT
                       !.pc = "done",
                       !.res = Redirect(302, "/login", Undefined)]]
    /\ UNCHANGED accounts
    /\ UNCHANGED <<sanVars, valVars, cryptoVars, dbVars>>

\* GET /protected-page
ProtectedPage(r, sid) ==
    /\ reqs[r].pc = "idle"
    /\ reqs' = [reqs EXCEPT ![r] =
                   [NewRequest("protected", sid, << >>) EXCEPT
                       !.pc = "done",
                       !.res = protectedPageRoute(sessions[sid])]]
    /\ UNCHANGED <<accounts, sessions>>
    /\ UNCHANGED <<sanVars, valVars, cryptoVars, dbVars>>

\* the response has gone out
ResponseSent(r) ==
    /\ reqs[r].pc = "done"
    /\ reqs' = [reqs EXCEPT ![r] = IdleRequest]
    /\ UNCHANGED <<accounts, sessions>>
    /\ UNCHANGED <<sanVars, valVars, cryptoVars, dbVars>>

Next ==
    \/ \E r \in Rids, sid \in Sids, body \in BodySamples :
          ReceiveSignup(r, sid, body)
    \/ \E r \in Rids, salt \in Salts : SignupResume(r, salt)
    \/ \E r \in Rids, sid \in Sids, body \in BodySamples :
          ReceiveLogin(r, sid, body)
    \/ \E r \in Rids : LoginResume(r)
    \/ \E r \in Rids, sid \in Sids : Logout(r, sid)
    \/ \E r \in Rids, sid \in Sids : ProtectedPage(r, sid)
    \/ \E r \in Rids : ResponseSent(r)

\* C3: the protected page is rendered only in a step of a request whose
\* session holds a user at that moment; a request whose session holds none
\* is never answered with the protected page.
C3_ProtectedPageOnlyWithUser ==
    [][\A r \in Rids :
          (/\ reqs[r].pc = "idle"
           /\ reqs'[r].route = "protected"
           /\ reqs'[r].res.target = "protected-page")
              => sessions[reqs'[r].sid] # NoUser]_vars

\* C3: a session was destroyed by a logout and a request for the protected
\* page in that session, now without a user, was turned away.
C3_Witness ==
    \E r1, r2 \in Rids :
        /\ reqs[r1].route = "logout" /\ reqs[r1].pc = "done"
        /\ reqs[r2].route = "protected" /\ reqs[r2].pc = "done"
        /\ reqs[r2].sid = reqs[r1].sid
        /\ sessions[reqs[r2].sid] = NoUser
        /\ reqs[r2].res.target # "protected-page"

UniqueEmails ==
    \A a, b \in accounts : a.email = b.email => a = b

-----------------------------------------------------------------------------
(* Validator runs on forms with missing, blank and filled required fields *)

RequiredValueSamples ==
    {Absent, Str(<<>>), Str(<<" ">>), Str(<<" ","x"," ">>), Str(<<"<">>)}

\* the lists a caller passes as requiredFields, one of them naming a field
\* twice
RequiredLists ==
    {<<K_email>>, <<K_nama, K_password>>, <<K_confirm, K_email, K_confirm>>,
     <<K_password, K_email, K_nama, K_confirm>>}

RequiredInit ==
    /\ \E email \in RequiredValueSamples, password \in RequiredValueSamples,
          nama \in RequiredValueSamples, confirm \in RequiredValueSamples,
          requiredFields \in RequiredLists :
            valArgs = [rawData |-> FormObject(email, password, Absent, nama,
                                              confirm),
                       requiredFields |-> requiredFields,
                       options |-> << >>]
    /\ callerFields = valArgs.requiredFields
    /\ valChecked = <<>>
    /\ valResult = Undefined
    /\ valPhase = "input"

\* the number of positions of seq that hold x
Occurrences(seq, x) == Cardinality({i \in 1..Len(seq) : seq[i] = x})

\* the message C11 expects for each field name
ExpectedRequiredText ==
    (K_email :> Str(<<"E","m","a","i","l"," ","i","s"," ","r","e","q","u","i","r","e","d">>))
        @@ (K_password :> Str(<<"P","a","s","s","w","o","r","d"," ","i","s"," ","r","e","q","u","i","r","e","d">>))
        @@ (K_nama :> Str(<<"N","a","m","a"," ","i","s"," ","r","e","q","u","i","r","e","d">>))
        @@ (K_confirm :> Str(<<"C","o","n","f","i","r","m"," ","i","s"," ","r","e","q","u","i","r","e","d">>))

\* the field is absent from the submitted form, or blank after trimming
SubmittedBlank(field) ==
    \/ field \notin DOMAIN valArgs.rawData
    \/ /\ IsString(valArgs.rawData[field])
       /\ trim(valArgs.rawData[field].v) = <<>>

\* C11: for every field named in requiredFields whose submitted value is a
\* string or absent, the outcome holds the message "<Field> is required", the
\* first letter of the name in upper case and the rest unchanged, once for
\* each time the list names the field (exactly once for a list that names it
\* once) if the field is absent or blank after trimming, and not at all if it
\* holds a non-blank value.
C11_RequiredFieldRule ==
    ValReturned =>
        \A field \in Range(valArgs.requiredFields) :
            Occurrences(valResult.messages, ExpectedRequiredText[field])
                = IF SubmittedBlank(field)
                  THEN Occurrences(valArgs.requiredFields, field)
                  ELSE 0

\* C11: a form whose email is blank, whose password is filled and whose nama
\* is absent was validated with all four fields required, and the outcome
\* holds "Email is required" and "Nama is required" once each and no
\* "Password is required".
C11_Witness ==
    /\ ValReturned
    /\ valArgs.requiredFields = <<K_password, K_email, K_nama, K_confirm>>
    /\ Get(valArgs.rawData, K_email) = Str(<<" ">>)
    /\ Get(valArgs.rawData, K_password) = Str(<<" ","x"," ">>)
    /\ K_nama \notin DOMAIN valArgs.rawData
    /\ Get(valArgs.rawData, K_confirm) = Str(<<"<">>)
    /\ Occurrences(valResult.messages, Str(<<"E","m","a","i","l"," ","i","s"," ","r","e","q","u","i","r","e","d">>)) = 1
    /\ Occurrences(valResult.messages, Str(<<"N","a","m","a"," ","i","s"," ","r","e","q","u","i","r","e","d">>)) = 1
    /\ Occurrences(valResult.messages, Str(<<"P","a","s","s","w","o","r","d"," ","i","s"," ","r","e","q","u","i","r","e","d">>)) = 0
    /\ Occurrences(valResult.messages, Str(<<"C","o","n","f","i","r","m"," ","i","s"," ","r","e","q","u","i","r","e","d">>)) = 0

-----------------------------------------------------------------------------
(* Validator runs on forms that fail several checks at once *)

AllowedEmail == <<"a","@","b",".","c","o">>
OtherDomainEmail == <<"a","@","c",".","c","o">>
MalformedEmail == <<"b","a","d">>
WeakPassword == <<"s","h","o","r","t","1","!">>
OtherPassword == <<"d","i","f","f","e","r","e","n","t">>

\* customValidators of the caller: none; a function for nama that returns a
\* text and one for email that returns false; a createFieldValidator function
\* for email and a function for nama that returns true
CustomValidatorSamples ==
    {<<>>,
     <<<<K_nama, [kind |-> "const", result |-> Str(<<"N","a","m","a"," ","b","a","d">>)]>>,
       <<K_email, [kind |-> "const", result |-> Bool(FALSE)]>>>>,
     <<<<K_email, [kind |-> "field", fieldName |-> <<"E","m","a","i","l">>,
                   minLength |-> 20, maxLength |-> 0]>>,
       <<K_nama, [kind |-> "const", result |-> Bool(TRUE)]>>>>}

OrderInit ==
    /\ \E email \in {Str(<<>>), Str(AllowedEmail), Str(OtherDomainEmail),
                      Str(MalformedEmail)},
          password \in {Str(<<>>), Str(StrongPassword), Str(WeakPassword)},
          confirmPassword \in {Absent, Str(StrongPassword),
                               Str(OtherPassword)},
          nama \in {Absent, Str(<<>>), Str(SeedName)},
          requiredFields \in {<<>>, <<K_nama, K_email>>},
          customValidators \in CustomValidatorSamples :
            valArgs = [rawData |-> FormObject(email, password,
                                              confirmPassword, nama, Absent),
                       requiredFields |-> requiredFields,
                       options |-> [passwordMatchField |-> K_confirmPassword,
                                    allowedDomains |-> <<<<"b",".","c","o">>>>,
                                    customValidators |-> customValidators]]
    /\ callerFields = valArgs.requiredFields
    /\ valChecked = <<>>
    /\ valResult = Undefined
    /\ valPhase = "input"

\* what C12 expects of each category, read off the submitted form
ExpectedRequiredPart ==
    LET fields == IF valArgs.requiredFields = <<>>
                  THEN <<K_email, K_password>>
                           \o (IF K_nama \in DOMAIN valArgs.rawData
                               THEN <<K_nama>> ELSE <<>>)
                  ELSE valArgs.requiredFields
        texts == [i \in 1..Len(fields) |->
                     [field |-> fields[i],
                      text |-> ExpectedRequiredText[fields[i]]]]
        blank(e) == SubmittedBlank(e.field)
        picked == SelectSeq(texts, blank)
    IN  [i \in 1..Len(picked) |-> picked[i].text]

ExpectedEmailPart ==
    LET email == valArgs.rawData[K_email].v
    IN  (IF email = MalformedEmail
         THEN <<Str(<<"I","n","v","a","l","i","d"," ","e","m","a","i","l"," ","f","o","r","m","a","t">>)>> ELSE <<>>)
            \o (IF email \in {MalformedEmail, OtherDomainEmail}
                THEN <<Str(<<"E","m","a","i","l"," ","m","u","s","t"," ","u","s","e"," ","o","n","e"," ","o","f"," ","t","h","e"," ","f","o","l","l","o","w","i","n","g"," ","d","o","m","a","i","n","s",":"," ","b",".","c","o">>)>>
                ELSE <<>>)

ExpectedPasswordPart ==
    LET password == valArgs.rawData[K_password].v
    IN  (IF password = WeakPassword
         THEN <<Str(PasswordPolicyMessage)>> ELSE <<>>)
            \o (IF /\ password # <<>>
                   /\ K_confirmPassword \in DOMAIN valArgs.rawData
                   /\ valArgs.rawData[K_confirmPassword].v # password
                THEN <<Str(<<"P","a","s","s","w","o","r","d"," ","c","o","n","f","i","r","m","a","t","i","o","n"," ","d","o","e","s"," ","n","o","t"," ","m","a","t","c","h">>)>>
                ELSE <<>>)

ExpectedCustomPart ==
    LET validators == valArgs.options.customValidators
        hasNama == K_nama \in DOMAIN valArgs.rawData
        short == <<Str(<<"E","m","a","i","l"," ","m","u","s","t"," ","b","e"," ","a","t"," ","l","e","a","s","t"," ","2","0"," ","c","h","a","r","a","c","t","e","r","s">>)>>
    IN  IF validators = <<>> THEN <<>>
        ELSE IF validators[1][1] = K_nama
        THEN (IF hasNama THEN <<Str(<<"N","a","m","a"," ","b","a","d">>)>> ELSE <<>>)
                 \o <<Bool(FALSE)>>
        ELSE short

\* C12: validation runs every check and orders its messages by category: the
\* messages are the required-field messages in requiredFields order, then the
\* invalid-email-format message, the domain-restriction message, the password
\* policy message, the confirmation-mismatch message and the custom-validator
\* results in key order, each present whenever its own check fails, whatever
\* failed before it.
C12_MessageOrder ==
    valPhase = "done" =>
        /\ valResult.t = "return"
        /\ valResult.messages =
               ExpectedRequiredPart \o ExpectedEmailPart
                   \o ExpectedPasswordPart \o ExpectedCustomPart

\* C12: a form failed a check of every category and the outcome holds the six
\* messages in the order of the categories.
C12_Witness ==
    /\ ValReturned
    /\ valResult.messages =
           <<Str(<<"N","a","m","a"," ","i","s"," ","r","e","q","u","i","r","e","d">>),
             Str(<<"I","n","v","a","l","i","d"," ","e","m","a","i","l"," ","f","o","r","m","a","t">>),
             Str(<<"E","m","a","i","l"," ","m","u","s","t"," ","u","s","e"," ","o","n","e"," ","o","f"," ","t","h","e"," ","f","o","l","l","o","w","i","n","g"," ","d","o","m","a","i","n","s",":"," ","b",".","c","o">>),
             Str(PasswordPolicyMessage),
             Str(<<"P","a","s","s","w","o","r","d"," ","c","o","n","f","i","r","m","a","t","i","o","n"," ","d","o","e","s"," ","n","o","t"," ","m","a","t","c","h">>),
             Str(<<"N","a","m","a"," ","b","a","d">>),
             Bool(FALSE)>>

-----------------------------------------------------------------------------
(* Validator runs with an allow-list of email domains *)

DomainEmailSamples ==
    {Str(<<>>), Str(AllowedEmail), Str(<<" ","a","@","b",".","c","o"," ">>), Str(OtherDomainEmail),
     Str(<<"a","@","B",".","c","o">>), Str(MalformedEmail), Str(<<"a","@">>),
     Str(<<"a","@","b",".","c","o","@","c",".","c","o">>)}

AllowedDomainsSamples ==
    {<<>>, <<<<"b",".","c","o">>>>, <<<<"b",".","c","o">>, <<"d",".","c","o">>>>}

DomainInit ==
    /\ \E email \in DomainEmailSamples,
          password \in {Absent, Str(StrongPassword)},
          validateEmail \in BOOLEAN,
          allowedDomains \in AllowedDomainsSamples :
            valArgs = [rawData |-> FormObject(email, password, Absent, Absent,
                                              Absent),
                       requiredFields |-> <<>>,
                       options |-> [validateEmail |-> validateEmail,
                                    allowedDomains |-> allowedDomains]]
    /\ callerFields = valArgs.requiredFields
    /\ valChecked = <<>>
    /\ valResult = Undefined
    /\ valPhase = "input"

\* the text C13 expects for the allowed domains of the call
ExpectedDomainText ==
    IF valArgs.options.allowedDomains = <<<<"b",".","c","o">>>>
    THEN Str(<<"E","m","a","i","l"," ","m","u","s","t"," ","u","s","e"," ","o","n","e"," ","o","f"," ","t","h","e"," ","f","o","l","l","o","w","i","n","g"," ","d","o","m","a","i","n","s",":"," ","b",".","c","o">>)
    ELSE Str(<<"E","m","a","i","l"," ","m","u","s","t"," ","u","s","e"," ","o","n","e"," ","o","f"," ","t","h","e"," ","f","o","l","l","o","w","i","n","g"," ","d","o","m","a","i","n","s",":"," ","b",".","c","o",","," ","d",".","c","o">>)

\* the outcome holds a domain-restriction message
HasDomainMessage ==
    \E i \in 1..Len(valResult.messages) :
        /\ IsString(valResult.messages[i])
        /\ Len(valResult.messages[i].v) >= Len(DomainMessagePrefix)
        /\ SubSeq(valResult.messages[i].v, 1, Len(DomainMessagePrefix))
               = DomainMessagePrefix

\* the substring of the trimmed email after its "@" is one of the allowed
\* domains
SubmittedDomainAllowed ==
    LET email == SubmittedTrimmed(K_email)
        at == IndexOfFrom(email, "@", 1)
    IN  /\ at # 0
        /\ SubSeq(email, at + 1, Len(email))
               \in Range(valArgs.options.allowedDomains)

\* C13 as stated: with validateEmail enabled, a non-empty email and a
\* non-empty allowedDomains, the outcome holds the domain-restriction message,
\* naming the allowed domains, if and only if the substring of the email after
\* "@" is not one of the allowed domains; with an empty allowedDomains it
\* never holds one.
C13_DomainRestriction ==
    ValReturned =>
        IF valArgs.options.allowedDomains = <<>>
        THEN ~HasDomainMessage
        ELSE (valArgs.options.validateEmail /\ SubmittedTrimmed(K_email) # <<>>)
                 => /\ HasDomainMessage <=> ~SubmittedDomainAllowed
                    /\ HasDomainMessage
                           => ExpectedDomainText \in Range(valResult.messages)

-----------------------------------------------------------------------------
(* Validator runs over passwords that break the policy rule by rule *)

\* a password of n characters that keeps every other rule
PasswordOfLength(n) == StrongPassword \o [i \in 1..(n - Len(StrongPassword)) |-> "a"]

PolicyPasswordSamples ==
    {Absent, Str(<<>>), Str(<<" "," ">>),
     Str(StrongPassword), Str(<<" ","A","a","1","!","a","a","a","a"," ">>), Str(<<"L","o","n","g","E","n","o","u","g","h","1","!">>),
     Str(PasswordOfLength(MaxPasswordLength)),
     Str(WeakPassword), Str(<<" ","A","a","1","!","a","a","a"," ">>),
     Str(PasswordOfLength(MaxPasswordLength + 1)),
     Str(<<"a","a","1","!","a","a","a","a">>), Str(<<"A","A","1","!","A","A","A","A">>), Str(<<"A","a","b","!","a","a","a","a">>),
     Str(<<"A","a","1","a","a","a","a","a">>), Str(<<"A","a","1","!"," ","a","a","a">>), Str(<<"A","a","1","!","\t","a","a","a">>),
     Str(<<"P","a","s","s","w","o","r","d","1","2","3","!">>), Str(<<"P","a","s","s","w","0","r","d","!">>), Str(<<"1","2","3","4","5","6","7","8","!","A","a">>),
     Str(<<"a">>)}

PolicyInit ==
    /\ \E password \in PolicyPasswordSamples,
          confirmPassword \in {Absent, Str(OtherPassword)},
          validatePassword \in BOOLEAN,
          requiredFields \in {<<>>, <<K_password>>} :
            valArgs = [rawData |-> FormObject(Str(AllowedEmail), password,
                                              confirmPassword, Absent, Absent),
                       requiredFields |-> requiredFields,
                       options |-> [validatePassword |-> validatePassword,
                                    passwordMatchField |-> K_confirmPassword]]
    /\ callerFields = valArgs.requiredFields
    /\ valChecked = <<>>
    /\ valResult = Undefined
    /\ valPhase = "input"

\* the composite message C14 expects
ExpectedPolicyText ==
    Str(<<"P","a","s","s","w","o","r","d"," ","m","u","s","t"," ","b","e"," ","a","t"," ","l","e","a","s","t"," ","8"," ","c","h","a","r","a","c","t","e","r","s",","," ","i","n","c","l","u","d","e"," ","u","p","p","e","r","c","a","s","e",","," ","l","o","w","e","r","c","a","s","e",","," ","n","u","m","b","e","r",","," ","a","n","d"," ","s","y","m","b","o","l">>)

\* the password breaks at least one rule of the stated policy
ViolatesPolicy(p) ==
    \/ Len(p) < 8
    \/ Len(p) > 100
    \/ \A i \in 1..Len(p) : p[i] \notin UpperChars
    \/ \A i \in 1..Len(p) : p[i] \notin LowerChars
    \/ \A i \in 1..Len(p) : p[i] \notin DigitChars
    \/ \A i \in 1..Len(p) : p[i] \in UpperChars \cup LowerChars \cup DigitChars
                                      \cup WhitespaceChars
    \/ \E i \in 1..Len(p) : p[i] \in WhitespaceChars
    \/ p \in {<<"P","a","s","s","w","o","r","d","1","2","3","!">>, <<"P","a","s","s","w","0","r","d","!">>, <<"1","2","3","4","5","6","7","8","!","A","a">>}

\* C14: the outcome holds the composite password-policy message exactly once
\* when validatePassword is enabled and the trimmed password is non-empty and
\* breaks at least one rule (length 8 to 100, an upper-case letter, a
\* lower-case letter, a digit, a symbol, no whitespace, not one of the three
\* blacklisted passwords), and does not hold it otherwise: not when
\* validatePassword is false, not for an absent or empty password, and never
\* twice however many rules fail.
C14_PasswordPolicy ==
    ValReturned =>
        Occurrences(valResult.messages, ExpectedPolicyText)
            = IF /\ valArgs.options.validatePassword
                 /\ SubmittedTrimmed(K_password) # <<>>
                 /\ ViolatesPolicy(SubmittedTrimmed(K_password))
              THEN 1
              ELSE 0

\* C14 witness: the one-letter password "a", which breaks four rules, was
\* validated with validatePassword enabled and a differing confirmation; the
\* outcome holds the policy message once, followed by the mismatch message.
C14_Witness ==
    /\ ValReturned
    /\ valArgs.options.validatePassword
    /\ Get(valArgs.rawData, K_password) = Str(<<"a">>)
    /\ Get(valArgs.rawData, K_confirmPassword) = Str(OtherPassword)
    /\ valResult.messages
           = <<ExpectedPolicyText,
               Str(<<"P","a","s","s","w","o","r","d"," ","c","o","n","f","i","r","m","a","t","i","o","n"," ","d","o","e","s"," ","n","o","t"," ","m","a","t","c","h">>)>>

-----------------------------------------------------------------------------
(* Password-bearing fields through the sanitizer *)

\* s without its leading and trailing whitespace, every other character kept
\* in place
Stripped(s) ==
    LET kept == {i \in 1..Len(s) : s[i] \notin WhitespaceChars}
    IN  IF kept = {} THEN <<>>
        ELSE SubSeq(s, CHOOSE i \in kept : \A j \in kept : i <= j,
                       CHOOSE i \in kept : \A j \in kept : i >= j)

-----------------------------------------------------------------------------
(* isValid of the returned outcome *)

\* C16: in every outcome validation returns, isValid is true if and only if
\* messages is empty, whatever the form, requiredFields and settings, custom
\* validators that return a value other than a text included.
C16_IsValidIffNoMessages ==
    ValReturned =>
        /\ valResult.isValid \in BOOLEAN
        /\ valResult.isValid <=> Len(valResult.messages) = 0

\* C16 witness: a form that passes every built-in check was validated with a
\* custom validator of the email that returns false; messages holds that one
\* false and isValid is false.
C16_Witness ==
    /\ ValReturned
    /\ Get(valArgs.rawData, K_email) = Str(AllowedEmail)
    /\ Get(valArgs.rawData, K_password) = Str(StrongPassword)
    /\ valResult.messages = <<Bool(FALSE)>>
    /\ valResult.isValid = FALSE

-----------------------------------------------------------------------------
(* The login success path *)

\* the accounts whose email is the submitted one and whose stored hash the
\* submitted password verifies against
VerifiedAccounts(body) ==
    {doc \in accounts :
        /\ IsString(Get(body, K_email))
        /\ doc.email = ToLowerCase(trim(Get(body, K_email).v))
        /\ compare(Get(body, K_password), doc.password) = Bool(TRUE)}

\* request r is a login request that is answered in this step
LoginAnswered(r) ==
    /\ reqs[r].pc # "done"
    /\ reqs'[r].pc = "done"
    /\ reqs'[r].route = "login"

\* the body of the answered request passed validation
PassedValidation(req) ==
    /\ req.hasil # Undefined
    /\ req.hasil.t = "return"
    /\ req.hasil.messages = <<>>

\* C17 as stated: a login request whose body passes validation, whose email
\* matches an existing account and whose password verifies against that
\* account's stored hash is answered with a redirect to /protected-page, and
\* the step that answers it sets the session's user to that account's nama and
\* email.
C17_LoginSuccess ==
    [][\A r \in Rids :
          (/\ LoginAnswered(r)
           /\ PassedValidation(reqs'[r])
           /\ VerifiedAccounts(reqs'[r].body) # {})
              => /\ reqs'[r].res.kind = "redirect"
                 /\ reqs'[r].res.target = "/protected-page"
                 /\ \E doc \in VerifiedAccounts(reqs'[r].body) :
                       sessions'[reqs'[r].sid]
                           = [nama |-> doc.nama, email |-> doc.email]]_vars

-----------------------------------------------------------------------------
(* The protected page without a session user *)

\* C18 as stated: a request to /protected-page whose session holds no user
\* is handled by errorHandling: the error "Anda belum login!" is flashed and
\* the response is a redirect to /login, not the response of another error
\* handler.
C18_UnauthenticatedRedirectsToLogin ==
    [][\A r \in Rids :
          (/\ reqs[r].pc = "idle"
           /\ reqs'[r].route = "protected"
           /\ sessions[reqs'[r].sid] = NoUser)
              => /\ reqs'[r].res.kind = "redirect"
                 /\ reqs'[r].res.target = "/login"
                 /\ reqs'[r].res.flash
                        = [t |-> "error", v |-> "Anda belum login!"]]_vars

-----------------------------------------------------------------------------
(* Signup followed by login with the same field values *)

\* the document signup stores for a form it accepts, hashed with a given salt
SignupRecord(body, salt) ==
    LET data == sanitization(body)
    IN  [nama |-> trim(data[K_nama].v),
         email |-> ToLowerCase(trim(data[K_email].v)),
         password |-> encrypt(data[K_password], salt)]

\* the accounts that signup stores for the form, whatever the salt
AccountsOf(body) ==
    IF /\ IsString(Get(body, K_nama))
       /\ IsString(Get(body, K_email))
       /\ IsString(Get(body, K_password))
    THEN {doc \in accounts : \E salt \in Salts : doc = SignupRecord(body, salt)}
    ELSE {}

\* C19 as stated: when the account that signup stores for a form exists, a
\* login request that submits the same email and password finds that account
\* and its password verification returns true, so the request is answered as
\* a successful login; padded values and characters that sanitization escapes
\* included.
C19_SignupLoginRoundTrip ==
    [][\A r \in Rids :
          (/\ LoginAnswered(r)
           /\ PassedValidation(reqs'[r])
           /\ AccountsOf(reqs'[r].body) # {})
              => /\ reqs'[r].found \in AccountsOf(reqs'[r].body)
                 /\ reqs'[r].res.target = "/protected-page"]_vars

-----------------------------------------------------------------------------
(* Where a session gets its user *)

\* request r is a login or signup request that is answered in this step with
\* a failure: a 400 (failed validation, unknown or duplicate email, wrong
\* password) or a 500 (thrown error)
FailureAnswered(r) ==
    /\ reqs[r].pc # "done"
    /\ reqs'[r].pc = "done"
    /\ reqs'[r].route \in {"login", "signup"}
    /\ reqs'[r].res.status \in {400, 500}

\* this step is a login that found an account for the submitted email and
\* whose compare returned true, for session sid
LoginSucceeds(r, sid) ==
    /\ reqs[r].route = "login"
    /\ reqs[r].sid = sid
    /\ reqs[r].found \in accounts
    /\ Str(reqs[r].found.email) = castEmail(Get(reqs[r].body, K_email))
    /\ compare(Get(reqs[r].body, K_password), reqs[r].found.password)
           = Bool(TRUE)
    /\ sessions'[sid] = [nama |-> reqs[r].found.nama,
                         email |-> reqs[r].found.email]

\* this step is a signup that inserts a new account, for session sid
SignupInserts(r, sid) ==
    /\ reqs[r].route = "signup"
    /\ reqs[r].sid = sid
    /\ \E doc \in accounts' \ accounts :
          /\ accounts' = accounts \cup {doc}
          /\ doc.nama = sessions'[sid].nama
          /\ doc.email = ToLowerCase(sessions'[sid].email)

\* C20: a step gives a session a user only if it is, in that session, a login
\* that found an account for the submitted email and whose compare returned
\* true, or a signup that inserted a new account; a login or signup request
\* answered with a failure (failed validation, unknown email, duplicate email,
\* wrong password, thrown error) leaves every session's user unchanged and
\* inserts no account.
C20_SessionUserOnlyOnSuccess ==
    [][/\ \A sid \in Sids :
             (sessions'[sid] # sessions[sid] /\ sessions'[sid] # NoUser)
                 => \E r \in Rids : LoginSucceeds(r, sid) \/ SignupInserts(r, sid)
       /\ \A r \in Rids :
             FailureAnswered(r)
                 => sessions' = sessions /\ accounts' = accounts]_vars

\* C20 witness: a login request and a signup request were both answered with
\* a failure; the session still holds the user it held before them and the
\* users collection is still empty.
C20_Witness ==
    /\ \E r \in Rids :
          /\ reqs[r].route = "login"
          /\ reqs[r].pc = "done"
          /\ reqs[r].res.status = 500
          /\ sessions[reqs[r].sid] = [nama |-> SeedName, email |-> SeedEmail]
    /\ \E r \in Rids :
          /\ reqs[r].route = "signup"
          /\ reqs[r].pc = "done"
          /\ reqs[r].res.status = 500
    /\ accounts = {}

-----------------------------------------------------------------------------
(* Specifications: each exercises one component and holds the others idle *)

SanIdle ==
    /\ sanData = << >>
    /\ sanOnce = << >>
    /\ sanTwice = << >>
    /\ sanPhase = "idle"

ValIdle ==
    /\ valArgs = << >>
    /\ callerFields = << >>
    /\ valChecked = << >>
    /\ valResult = Undefined
    /\ valPhase = "idle"

CryptoIdle ==
    /\ env = << >>
    /\ hashes = {}
    /\ lastCompare = Undefined
    /\ lastToken = Undefined

DbIdle ==
    /\ isConnected = FALSE
    /\ connectCalls = 0
    /\ listeners = [error |-> 0, disconnected |-> 0]
    /\ dbPc = << >>
    /\ exited = FALSE

AppIdle ==
    /\ accounts = {}
    /\ sessions = << >>
    /\ reqs = << >>

\* the credential module as the application loads it: the pepper is set
AppCrypto ==
    /\ env = [PASSWORD_PEPPER |-> AppPepper, NODE_ENV |-> "production"]
    /\ hashes = {}
    /\ lastCompare = Undefined
    /\ lastToken = Undefined

InitSanitize == SanInit /\ ValIdle /\ CryptoIdle /\ DbIdle /\ AppIdle

SpecSanitize == InitSanitize /\ [][SanNext]_vars

InitValidate == ValInit /\ SanIdle /\ CryptoIdle /\ DbIdle /\ AppIdle

SpecValidate == InitValidate /\ [][ValNext]_vars

InitRequired == RequiredInit /\ SanIdle /\ CryptoIdle /\ DbIdle /\ AppIdle

SpecRequired == InitRequired /\ [][ValNext]_vars

InitOrder == OrderInit /\ SanIdle /\ CryptoIdle /\ DbIdle /\ AppIdle

SpecOrder == InitOrder /\ [][ValNext]_vars

InitDomain == DomainInit /\ SanIdle /\ CryptoIdle /\ DbIdle /\ AppIdle

SpecDomain == InitDomain /\ [][ValNext]_vars

InitPolicy == PolicyInit /\ SanIdle /\ CryptoIdle /\ DbIdle /\ AppIdle

SpecPolicy == InitPolicy /\ [][ValNext]_vars

InitCrypto == CryptoInit /\ SanIdle /\ ValIdle /\ DbIdle /\ AppIdle

SpecCrypto == InitCrypto /\ [][CryptoNext]_vars

InitDB == DbInit /\ SanIdle /\ ValIdle /\ CryptoIdle /\ AppIdle

SpecDB == InitDB /\ [][DbNext]_vars

Init == AppCrypto /\ AppInit /\ SanIdle /\ ValIdle /\ DbIdle

Spec == Init /\ [][Next]_vars

=============================================================================
